---- MODULE Spec2Model ----
(***************************************************************************)
(* audioM: the audio monad of lib/audioMonad.js.                           *)
(*                                                                         *)
(* A monad wraps a data value {locations, sources, masterGain,             *)
(* audioBuffers}.  Every lifted operation receives the wrapped value and   *)
(* returns a value that is wrapped again.  JavaScript objects are modelled *)
(* as cells of heaps (sequences indexed by reference), so that identity,   *)
(* aliasing and in-place writes of the decode callbacks are visible.       *)
(***************************************************************************)
EXTENDS Integers, Sequences, FiniteSets, TLC

\* ------------------------------------------------------------------------
\* Bounds of the model

\* number of calls of the monad's methods in one behaviour
MaxCalls == 3
\* number of decodeAudioData requests in one behaviour
MaxDecodes == 2
\* number of calls in one behaviour of the routing graph
MaxGraphCalls == 4

\* ------------------------------------------------------------------------
\* Inputs

SoundIds == {"x", "y"}
LocationIds == {"p"}

\* the value of an absent field, of an object reference that is undefined
Undefined == 0
\* the value of a property lookup that finds nothing, of an omitted string argument
Absent == "undefined"
\* an omitted numeric argument
Missing == -1

\* encoded sounds, as the pieces that data.split(',') yields; the base64 text
\* is a sequence of characters
GoodPayload == << <<"data:audio/wav;base64">>, <<"A", "A", "A", "A">> >>
\* a payload without the comma that ends the prefix
BarePayload == << <<"A", "A", "A", "A">> >>

\* what a caller passes to addSound()
AddSoundArgs ==
    { [id |-> "x", data |-> GoodPayload], [id |-> "y", data |-> BarePayload] }

\* what a caller passes to sounds(): (id, data) pairs in property order
SoundMaps == { << <<"x", GoodPayload>>, <<"y", GoodPayload>> >> }

\* what a caller passes to setAudioBuffers()
BufferMaps == { ("x" :> "H0") }

\* what a caller passes to play()
PlayArgs ==
    { [id |-> "x", location |-> Absent], [id |-> "x", location |-> "p"],
      [id |-> "y", location |-> Absent] }

Volumes == {Missing, 0, 2}

\* what a caller passes to locate(): position and options
LocateArgs ==
    { [pos |-> <<Missing, Missing, Missing>>, options |-> <<>>],
      [pos |-> <<1, 0, 2>>, options |-> ("rolloffFactor" :> 2)] }

\* what a caller passes to listenAt() and orient()
Positions == { <<1, Missing, 0>> }

\* ------------------------------------------------------------------------
\* State

VARIABLES
    audioContext,   \* TRUE when the page has an AudioContext
    monads,         \* heap of monads: [value, bindReplaced]
    values,         \* heap of data values: [locations, sources, masterGain, audioBuffers, panners]
    objects,        \* heap of plain mapping objects (buffer tables, location tables)
    gainNodes,      \* gain nodes of the audio context
    pannerNodes,    \* panner nodes of the audio context
    bufferSources,  \* buffer sources of the audio context
    decodes,        \* decodeAudioData requests with their callbacks' captures
    listener,       \* position of the audio context's listener
    contextCalls,   \* number of calls made on the audio context and its nodes
    callerObjects,  \* references to mappings the caller holds (arguments, results)
    derivation,     \* history: for each monad, the call that returned it first
    last,           \* history: the last call or callback
    ncalls          \* number of calls of lifted operations so far

vars == <<audioContext, monads, values, objects, gainNodes, pannerNodes,
          bufferSources, decodes, listener, contextCalls, callerObjects,
          derivation, last, ncalls>>

Heap ==
    [values |-> values, objects |-> objects, gainNodes |-> gainNodes,
     pannerNodes |-> pannerNodes, bufferSources |-> bufferSources,
     decodes |-> decodes, listener |-> listener, contextCalls |-> contextCalls]

SetHeap(H) ==
    /\ values' = H.values
    /\ objects' = H.objects
    /\ gainNodes' = H.gainNodes
    /\ pannerNodes' = H.pannerNodes
    /\ bufferSources' = H.bufferSources
    /\ decodes' = H.decodes
    /\ listener' = H.listener
    /\ contextCalls' = H.contextCalls

\* results of a function: the heap it leaves, what it returns, whether it threw
Return(H, ref) == [heap |-> H, ret |-> ref, threw |-> FALSE]
Throw(H) == [heap |-> H, ret |-> Undefined, threw |-> TRUE]

\* property lookup on a mapping object
GetBuffer(o, id) == IF id \in DOMAIN o THEN o[id] ELSE Absent
GetLocation(o, id) == IF id \in DOMAIN o THEN o[id] ELSE Undefined
\* o[id] = v
Put(o, id, v) == (id :> v) @@ o
\* delete o[id]
Delete(o, id) == [k \in DOMAIN o \ {id} |-> o[k]]

\* the empty data value {}
EmptyData ==
    [locations |-> Undefined, sources |-> Undefined, masterGain |-> Undefined,
     audioBuffers |-> Undefined, panners |-> Undefined]

\* ------------------------------------------------------------------------
\* MONAD: unit and the audio monad's modifier

\* the modifier of audioMonad: without an audio context or without a value,
\* bind is replaced by a function that returns the monad itself
modifierIgnoresContext(ctx, value) == value = Undefined

modifier(ctx, value) == (~ctx) \/ value = Undefined

\* unit(value): a new monad on the heap of monads
unit(ms, ctx, value) ==
    Append(ms, [value |-> value, bindReplaced |-> modifier(ctx, value)])

\* what bind returns: a monad (is_monad) or whatever the function returned
AsMonad(m) == [is_monad |-> TRUE, ref |-> m]
AsValueFlagged(r) == [is_monad |-> TRUE, ref |-> r]
AsValue(r) == [is_monad |-> FALSE, ref |-> r]

\* ------------------------------------------------------------------------
\* Helpers of the audio monad

\* one more call on the audio context or on one of its nodes
Called(H) == [H EXCEPT !.contextCalls = @ + 1]

\* a new mapping object with the contents of o; returns its reference
NewObject(H, o) ==
    Return([H EXCEPT !.objects = Append(@, o)], Len(H.objects) + 1)

shallowCopyAliased(H, o) == Return(H, o)

shallowCopy(H, o) == NewObject(H, H.objects[o])

cloneDataNoLocations(H, data) ==
    LET d == H.values[data]
        c3 == IF d.audioBuffers # Undefined
              THEN shallowCopy(H, d.audioBuffers) ELSE Return(H, Undefined)
        clone == [locations |-> Undefined, sources |-> Undefined,
                  masterGain |-> d.masterGain, audioBuffers |-> c3.ret,
                  panners |-> Undefined]
    IN  Return([c3.heap EXCEPT !.values = Append(@, clone)], Len(H.values) + 1)

cloneDataInPlace(H, data) == Return(H, data)

\* cloneData(data): a new value with copies of the mappings of data
cloneData(H, data) ==
    LET d == H.values[data]
        c1 == IF d.locations # Undefined
              THEN shallowCopy(H, d.locations) ELSE Return(H, Undefined)
        c2 == IF d.sources # Undefined
              THEN shallowCopy(c1.heap, d.sources) ELSE Return(c1.heap, Undefined)
        c3 == IF d.audioBuffers # Undefined
              THEN shallowCopy(c2.heap, d.audioBuffers) ELSE Return(c2.heap, Undefined)
        clone == [locations |-> c1.ret, sources |-> c2.ret,
                  masterGain |-> d.masterGain, audioBuffers |-> c3.ret,
                  panners |-> Undefined]
    IN  Return([c3.heap EXCEPT !.values = Append(@, clone)], Len(H.values) + 1)

\* a || dflt for a numeric argument
OrDefault(a, dflt) == IF a = Missing \/ a = 0 THEN dflt ELSE a

createGain(H, volume) ==
    LET node == [value |-> OrDefault(volume, 1), destination |-> 0]
    IN  Return(Called([H EXCEPT !.gainNodes = Append(@, node)]),
               Len(H.gainNodes) + 1)

createMasterGain(H, volume) ==
    LET g == createGain(H, volume)
    IN  Return(Called([g.heap EXCEPT !.gainNodes[g.ret].destination = @ + 1]),
               g.ret)

\* data.split(',')[1]
SplitSecond(data) ==
    [defined |-> Len(data) >= 2,
     text |-> IF Len(data) >= 2 THEN data[2] ELSE <<>>]

\* base64ToArrayBuffer(base64): the length of the array buffer; reading the
\* length of undefined throws
base64ToArrayBuffer(base64) ==
    IF ~base64.defined
    THEN [threw |-> TRUE, byteLength |-> 0]
    ELSE LET len == Len(base64.text)
             pad1 == len >= 1 /\ base64.text[len] = "="
             pad2 == pad1 /\ len >= 2 /\ base64.text[len - 1] = "="
         IN  [threw |-> FALSE,
              byteLength |-> ((len * 3) \div 4)
                             - (IF pad1 THEN 1 ELSE 0) - (IF pad2 THEN 1 ELSE 0)]

\* audioContext.decodeAudioData(buff, audioDecodedSuccess, audioDecodedFailed):
\* both callbacks capture the table audioBuffers and the id
decodeAudioData(H, buff, audioBuffers, id) ==
    Called([H EXCEPT !.decodes =
        Append(@, [audioBuffers |-> audioBuffers, id |-> id,
                   byteLength |-> buff, status |-> "scheduled"])])

Truthy(buffer) == buffer # Absent /\ buffer # ""

\* ------------------------------------------------------------------------
\* The functions lifted into the audio monad.  Each takes the heap, the
\* monad's value and the call's arguments.

setAudioBuffersAliased(H, value, buffers) ==
    LET c == cloneData(H, value)
    IN  Return([c.heap EXCEPT !.values[c.ret].audioBuffers = buffers], c.ret)

\* setAudioBuffers(value, buffers): buffers is a reference to the caller's mapping
setAudioBuffers(H, value, buffers) ==
    LET c == cloneData(H, value)
        copyBuffers == NewObject(c.heap, H.objects[buffers])
    IN  Return([copyBuffers.heap EXCEPT !.values[c.ret].audioBuffers = copyBuffers.ret],
               c.ret)

getAudioBuffersAliased(H, value) ==
    IF H.values[value].audioBuffers # Undefined
    THEN Return(H, H.values[value].audioBuffers)
    ELSE NewObject(H, <<>>)

\* getAudioBuffers(value): returns a mapping, not a value
getAudioBuffers(H, value) ==
    IF H.values[value].audioBuffers # Undefined
    THEN shallowCopy(H, H.values[value].audioBuffers)
    ELSE NewObject(H, <<>>)

masterGain(H, value, initialVolume) ==
    LET c == cloneData(H, value)
        g == createMasterGain(c.heap, initialVolume)
    IN  Return([g.heap EXCEPT !.values[c.ret].masterGain = g.ret], c.ret)

ensureMasterGainNotStored(H, value) ==
    IF H.values[value].masterGain = Undefined
    THEN LET c == cloneData(H, value)
             g == createMasterGain(c.heap, Missing)
         IN  Return(g.heap, c.ret)
    ELSE Return(H, value)

\* play, "if needed, add a master gain": the value that play goes on with
ensureMasterGain(H, value) ==
    IF H.values[value].masterGain = Undefined
    THEN LET c == cloneData(H, value)
             g == createMasterGain(c.heap, Missing)
         IN  Return([g.heap EXCEPT !.values[c.ret].masterGain = g.ret], c.ret)
    ELSE Return(H, value)

\* audioContext.createBufferSource(); audioSource.buffer = buffer
createBufferSource(H, buffer) ==
    Return(Called([H EXCEPT !.bufferSources =
               Append(@, [buffer |-> buffer, panners |-> {}, gains |-> {},
                          started |-> 0, when |-> Missing])]),
           Len(H.bufferSources) + 1)

connectSourceDirect(H, value, audioSource, location) ==
    Called([H EXCEPT !.bufferSources[audioSource].gains =
                         @ \cup {H.values[value].masterGain}])

\* play, the connections of the new source
connectSource(H, value, audioSource, location) ==
    LET v == H.values[value]
        panner == IF location # Absent /\ location # "" /\ v.locations # Undefined
                  THEN GetLocation(H.objects[v.locations], location)
                  ELSE Undefined
    IN  IF panner # Undefined
        THEN \* audioSource.connect(panner); panner.connect(value.masterGain)
             Called(Called(
               [H EXCEPT !.bufferSources[audioSource].panners = @ \cup {panner},
                         !.pannerNodes[panner].gains = @ \cup {v.masterGain}]))
        ELSE \* audioSource.connect(value.masterGain)
             Called([H EXCEPT !.bufferSources[audioSource].gains =
                                  @ \cup {v.masterGain}])

\* the part of play that runs when the buffer is playable
playBuffer(H, value0, buffer, location) ==
    LET e == ensureMasterGain(H, value0)
        value == e.ret
        src == createBufferSource(e.heap, buffer)
        H3 == connectSource(src.heap, value, src.ret, location)
        \* audioSource.start(0)
        H4 == Called([H3 EXCEPT !.bufferSources[src.ret].started = @ + 1,
                                !.bufferSources[src.ret].when = 0])
    IN  Return(H4, value)

PlayableUnlessPending(buffer) == Truthy(buffer) /\ buffer # "pending"

Playable(buffer) == Truthy(buffer) /\ buffer # "pending" /\ buffer # "failed"

play(H, value, id, location) ==
    LET v == H.values[value]
        buffer == IF v.audioBuffers # Undefined
                  THEN GetBuffer(H.objects[v.audioBuffers], id)
                  ELSE Absent
    IN  IF Playable(buffer)
        THEN playBuffer(H, value, buffer, location)
        ELSE Return(H, value)

removeSound(H, value, id) ==
    LET c == cloneData(H, value)
        t == c.heap.values[c.ret].audioBuffers
    IN  IF t # Undefined
        THEN Return([c.heap EXCEPT !.objects[t] = Delete(@, id)], c.ret)
        ELSE Return(c.heap, c.ret)

decodeIntoIfNew(H, audioBuffers, id, data) ==
    LET H1 == IF GetBuffer(H.objects[audioBuffers], id) = Absent
              THEN [H EXCEPT !.objects[audioBuffers] = Put(@, id, "pending")]
              ELSE H
        buff == base64ToArrayBuffer(SplitSecond(data))
    IN  IF buff.threw
        THEN Throw(H1)
        ELSE Return(decodeAudioData(H1, buff.byteLength, audioBuffers, id),
                    audioBuffers)

\* one entry of the loop of sounds / the body of addSound: mark pending,
\* convert the payload, schedule the decode
decodeInto(H, audioBuffers, id, data) ==
    LET H1 == [H EXCEPT !.objects[audioBuffers] = Put(@, id, "pending")]
        buff == base64ToArrayBuffer(SplitSecond(data))
    IN  IF buff.threw
        THEN Throw(H1)
        ELSE Return(decodeAudioData(H1, buff.byteLength, audioBuffers, id),
                    audioBuffers)

RECURSIVE soundsLoop(_, _, _, _)
\* for (sound in sounds), from the i-th property on
soundsLoop(H, audioBuffers, snds, i) ==
    IF i > Len(snds)
    THEN Return(H, audioBuffers)
    ELSE LET r == decodeInto(H, audioBuffers, snds[i][1], snds[i][2])
         IN  IF r.threw THEN r ELSE soundsLoop(r.heap, audioBuffers, snds, i + 1)

sounds(H, value, snds) ==
    LET c == cloneData(H, value)
        t == IF c.heap.values[c.ret].audioBuffers # Undefined
             THEN Return(c.heap, c.heap.values[c.ret].audioBuffers)
             ELSE NewObject(c.heap, <<>>)
        r == soundsLoop(t.heap, t.ret, snds, 1)
    IN  IF r.threw
        THEN r
        ELSE Return([r.heap EXCEPT !.values[c.ret].audioBuffers = t.ret], c.ret)

addSoundIntoOriginal(H, value, id, data) ==
    LET c == cloneData(H, value)
        audioBuffers == H.values[value].audioBuffers
    IN  IF audioBuffers = Undefined
        THEN Throw(c.heap)
        ELSE LET r == decodeInto(c.heap, audioBuffers, id, data)
             IN  IF r.threw THEN r ELSE Return(r.heap, c.ret)

addSound(H, value, id, data) ==
    LET c == cloneData(H, value)
        audioBuffers == c.heap.values[c.ret].audioBuffers
    IN  IF audioBuffers = Undefined
        THEN \* audioBuffers[id] = 'pending' on undefined: TypeError
             Throw(c.heap)
        ELSE LET r == decodeInto(c.heap, audioBuffers, id, data)
             IN  IF r.threw THEN r ELSE Return(r.heap, c.ret)

locate(H, value0, id, pos, options) ==
    LET c == cloneData(H, value0)
        value == c.ret
        x == OrDefault(pos[1], 0)
        y == OrDefault(pos[2], 0)
        z == OrDefault(pos[3], 0)
        l == IF c.heap.values[value].locations # Undefined
             THEN Return(c.heap, c.heap.values[value].locations)
             ELSE NewObject(c.heap, <<>>)
        H1 == [l.heap EXCEPT !.values[value].locations = l.ret]
        create == GetLocation(H1.objects[l.ret], id) = Undefined
        \* audioContext.createPanner()
        H2 == IF create
              THEN Called([H1 EXCEPT
                     !.pannerNodes = Append(@, [position |-> <<0, 0, 0>>,
                                                positioned |-> 0,
                                                props |-> <<>>, gains |-> {}]),
                     !.objects[l.ret] = Put(@, id, Len(H1.pannerNodes) + 1)])
              ELSE H1
        panner == H2.objects[l.ret][id]
        \* setPosition(x, y, z)
        H3 == Called([H2 EXCEPT !.pannerNodes[panner].position = <<x, y, z>>,
                                !.pannerNodes[panner].positioned = @ + 1])
        H4 == [H3 EXCEPT !.pannerNodes[panner].props = options @@ @]
    IN  Return(H4, value)

removeLocation(H, value, id) ==
    LET c == cloneData(H, value)
        l == c.heap.values[c.ret].locations
    IN  IF l # Undefined
        THEN Return([c.heap EXCEPT !.objects[l] = Delete(@, id)], c.ret)
        ELSE Return(c.heap, c.ret)

listenAtCloning(H, value, pos) ==
    LET c == cloneData(H, value)
    IN  Return(Called([c.heap EXCEPT !.listener =
                   <<OrDefault(pos[1], 0), OrDefault(pos[2], 0), OrDefault(pos[3], 0)>>]),
               c.ret)

listenAt(H, value, pos) ==
    Return(Called([H EXCEPT !.listener =
               <<OrDefault(pos[1], 0), OrDefault(pos[2], 0), OrDefault(pos[3], 0)>>]),
           value)

orientReadsLocations(H, value, id, pos) ==
    LET ps == H.values[value].locations
        panner == IF ps # Undefined THEN GetLocation(H.objects[ps], id) ELSE Undefined
    IN  IF panner # Undefined
        THEN Return(Called([H EXCEPT !.pannerNodes[panner].props =
                 ("orientation" :> <<OrDefault(pos[1], 0), OrDefault(pos[2], 0),
                                     OrDefault(pos[3], 0)>>) @@ @]), value)
        ELSE Return(H, value)

\* orient and cone read value.panners, a mapping of the same shape as locations
orient(H, value, id, pos) ==
    LET ps == H.values[value].panners
        panner == IF ps # Undefined THEN GetLocation(H.objects[ps], id) ELSE Undefined
    IN  IF panner # Undefined
        THEN Return(Called([H EXCEPT !.pannerNodes[panner].props =
                 ("orientation" :> <<OrDefault(pos[1], 0), OrDefault(pos[2], 0),
                                     OrDefault(pos[3], 0)>>) @@ @]), value)
        ELSE Return(H, value)

cone(H, value, id, innerAngle, outerAngle, outerGain) ==
    LET ps == H.values[value].panners
        panner == IF ps # Undefined THEN GetLocation(H.objects[ps], id) ELSE Undefined
    IN  IF panner # Undefined /\ id # "listener"
        THEN Return(Called(Called(Called([H EXCEPT !.pannerNodes[panner].props =
                 ("coneInnerAngle" :> OrDefault(innerAngle, 360))
                 @@ ("coneOuterAngle" :> OrDefault(outerAngle, 360))
                 @@ ("coneOuterGain" :> OrDefault(outerGain, 0)) @@ @]))), value)
        ELSE Return(H, value)

audioDecodedFailedUnrecorded(H, d) ==
    [H EXCEPT !.decodes[d].status = "failed"]

\* the callbacks of a decode: they write into the table captured at scheduling
audioDecodedSuccess(H, d, audioData) ==
    [H EXCEPT !.objects[H.decodes[d].audioBuffers] = Put(@, H.decodes[d].id, audioData),
              !.decodes[d].status = "decoded"]

audioDecodedFailed(H, d) ==
    [H EXCEPT !.objects[H.decodes[d].audioBuffers] = Put(@, H.decodes[d].id, "failed"),
              !.decodes[d].status = "failed"]

\* ------------------------------------------------------------------------
\* Calls of the monad's methods

\* monad.bind(func, args) on heap H; result is the outcome of
\* func.apply(undefined, [value].concat(args)), which is evaluated only when
\* bind was not replaced by the modifier
bind(H, m, result) ==
    IF monads[m].bindReplaced
    THEN Return(H, AsMonad(m))
    ELSE [heap |-> result.heap, ret |-> AsValue(result.ret), threw |-> result.threw]

\* the node a call created, if any
Created(before, after) == IF Len(after) > Len(before) THEN Len(after) ELSE Undefined

\* a method registered with unit.lift: the result of bind is returned when it
\* is a monad, and wrapped by unit otherwise; calls bounds the number of calls
LiftWithin(calls, name, H, m, args, applied) ==
    LET result == bind(H, m, applied)
        wrap == ~result.threw /\ ~result.ret.is_monad
    IN  /\ ncalls < calls
        /\ Len(result.heap.decodes) <= MaxDecodes
        /\ ncalls' = ncalls + 1
        /\ SetHeap(result.heap)
        /\ monads' = IF wrap THEN unit(monads, audioContext, result.ret.ref) ELSE monads
        /\ derivation' =
              IF wrap
              THEN Append(derivation,
                     [from |-> m, op |-> name, args |-> args,
                      gain |-> Created(H.gainNodes, result.heap.gainNodes),
                      panner |-> Created(H.pannerNodes, result.heap.pannerNodes),
                      source |-> Created(H.bufferSources, result.heap.bufferSources)])
              ELSE derivation
        /\ last' = [op |-> name, this |-> m, args |-> args, threw |-> result.threw,
                    is_monad |-> ~result.threw,
                    ret |-> IF result.threw THEN Undefined
                            ELSE IF wrap THEN Len(monads) + 1 ELSE result.ret.ref]
        /\ UNCHANGED audioContext

Lift(name, H, m, args, applied) == LiftWithin(MaxCalls, name, H, m, args, applied)

\* a method registered with unit.lift_value: the result of bind is returned as it is
LiftValue(name, H, m, args, applied) ==
    LET result == bind(H, m, applied)
    IN  /\ ncalls < MaxCalls
        /\ ncalls' = ncalls + 1
        /\ SetHeap(result.heap)
        /\ callerObjects' =
              IF ~result.threw /\ ~result.ret.is_monad
              THEN callerObjects \cup {result.ret.ref} ELSE callerObjects
        /\ last' = [op |-> name, this |-> m, args |-> args, threw |-> result.threw,
                    is_monad |-> ~result.threw /\ result.ret.is_monad,
                    ret |-> IF result.threw THEN Undefined ELSE result.ret.ref]
        /\ UNCHANGED <<audioContext, monads, derivation>>

\* the caller chains its calls: each is made on the monad that the last
\* lifted method returned; the earlier monads and values stay on the heap
Monads == {Len(monads)}

SetAudioBuffers ==
    \E m \in Monads, b \in BufferMaps :
        \* the caller builds the mapping and passes it
        LET arg == NewObject(Heap, b)
        IN  /\ Lift("setAudioBuffers", arg.heap, m, [buffers |-> arg.ret],
                    setAudioBuffers(arg.heap, monads[m].value, arg.ret))
            /\ callerObjects' = callerObjects \cup {arg.ret}

GetAudioBuffers ==
    \E m \in Monads :
        LiftValue("getAudioBuffers", Heap, m, <<>>,
                  getAudioBuffers(Heap, monads[m].value))

MasterGain ==
    \E m \in Monads, initialVolume \in Volumes :
        /\ Lift("masterGain", Heap, m, [initialVolume |-> initialVolume],
                masterGain(Heap, monads[m].value, initialVolume))
        /\ UNCHANGED callerObjects

Play ==
    \E m \in Monads, a \in PlayArgs :
        /\ Lift("play", Heap, m, a, play(Heap, monads[m].value, a.id, a.location))
        /\ UNCHANGED callerObjects

RemoveSound ==
    \E m \in Monads, id \in SoundIds :
        /\ Lift("removeSound", Heap, m, [id |-> id],
                removeSound(Heap, monads[m].value, id))
        /\ UNCHANGED callerObjects

Sounds ==
    \E m \in Monads, snds \in SoundMaps :
        /\ Lift("sounds", Heap, m, [sounds |-> snds],
                sounds(Heap, monads[m].value, snds))
        /\ UNCHANGED callerObjects

AddSound ==
    \E m \in Monads, a \in AddSoundArgs :
        /\ Lift("addSound", Heap, m, a, addSound(Heap, monads[m].value, a.id, a.data))
        /\ UNCHANGED callerObjects

Locate ==
    \E m \in Monads, id \in LocationIds, a \in LocateArgs :
        /\ Lift("locate", Heap, m, [id |-> id, pos |-> a.pos, options |-> a.options],
                locate(Heap, monads[m].value, id, a.pos, a.options))
        /\ UNCHANGED callerObjects

RemoveLocation ==
    \E m \in Monads, id \in LocationIds :
        /\ Lift("removeLocation", Heap, m, [id |-> id],
                removeLocation(Heap, monads[m].value, id))
        /\ UNCHANGED callerObjects

ListenAt ==
    \E m \in Monads, pos \in Positions :
        /\ Lift("listenAt", Heap, m, [pos |-> pos],
                listenAt(Heap, monads[m].value, pos))
        /\ UNCHANGED callerObjects

Orient ==
    \E m \in Monads, id \in LocationIds, pos \in Positions :
        /\ Lift("orient", Heap, m, [id |-> id, pos |-> pos],
                orient(Heap, monads[m].value, id, pos))
        /\ UNCHANGED callerObjects

Cone ==
    \E m \in Monads, id \in LocationIds :
        /\ Lift("cone", Heap, m, [id |-> id],
                cone(Heap, monads[m].value, id, Missing, Missing, Missing))
        /\ UNCHANGED callerObjects

\* ------------------------------------------------------------------------
\* The decode engine reports, once for every request

Scheduled == {d \in 1..Len(decodes) : decodes[d].status = "scheduled"}

\* the buffer that the engine decodes for request d
DecodedBuffer(d) == "H" \o ToString(d)

DecodeSucceeds ==
    \E d \in Scheduled :
        /\ SetHeap(audioDecodedSuccess(Heap, d, DecodedBuffer(d)))
        /\ UNCHANGED <<audioContext, monads, callerObjects, derivation, last, ncalls>>

DecodeFails ==
    \E d \in Scheduled :
        /\ SetHeap(audioDecodedFailed(Heap, d))
        /\ UNCHANGED <<audioContext, monads, callerObjects, derivation, last, ncalls>>

\* ------------------------------------------------------------------------
\* The specification

\* audioMonad(value) is called with nothing or with the empty data value {},
\* on a page with or without an audio context
InitialData == {"none", "empty"}

Init ==
    /\ audioContext \in BOOLEAN
    /\ \E given \in InitialData :
          /\ values = IF given = "none" THEN <<>> ELSE <<EmptyData>>
          /\ objects = <<>>
          /\ monads = unit(<<>>, audioContext,
                           IF given = "none" THEN Undefined ELSE 1)
    /\ gainNodes = <<>>
    /\ pannerNodes = <<>>
    /\ bufferSources = <<>>
    /\ decodes = <<>>
    /\ listener = <<0, 0, 0>>
    /\ contextCalls = 0
    /\ callerObjects = {}
    /\ derivation = << [from |-> Undefined, op |-> "unit", args |-> <<>>,
                        gain |-> Undefined, panner |-> Undefined,
                        source |-> Undefined] >>
    /\ last = [op |-> "unit", this |-> Undefined, args |-> <<>>, threw |-> FALSE,
               is_monad |-> TRUE, ret |-> 1]
    /\ ncalls = 0

Next ==
    \/ SetAudioBuffers
    \/ GetAudioBuffers
    \/ MasterGain
    \/ Play
    \/ RemoveSound
    \/ Sounds
    \/ AddSound
    \/ Locate
    \/ RemoveLocation
    \/ ListenAt
    \/ Orient
    \/ Cone
    \/ DecodeSucceeds
    \/ DecodeFails

Spec == Init /\ [][Next]_vars

\* The engine reports on request d, success or failure
DecodeReports(d) ==
    /\ d \in Scheduled
    /\ \/ SetHeap(audioDecodedSuccess(Heap, d, DecodedBuffer(d)))
       \/ SetHeap(audioDecodedFailed(Heap, d))
    /\ UNCHANGED <<audioContext, monads, callerObjects, derivation, last, ncalls>>

\* decodeAudioData calls one of its two callbacks for every request
SpecFair ==
    /\ Init
    /\ [][Next]_vars
    /\ \A d \in 1..MaxDecodes : WF_vars(DecodeReports(d))

\* The caller may write into the mappings it holds: the ones it passed to
\* setAudioBuffers and the ones getAudioBuffers returned
WrittenByCaller == "W"
\* the entries that the caller writes
WrittenIds == {"x"}

CallerWrite ==
    \E o \in callerObjects, id \in WrittenIds :
        /\ GetBuffer(objects[o], id) # WrittenByCaller
        /\ objects' = [objects EXCEPT ![o] = Put(@, id, WrittenByCaller)]
        /\ UNCHANGED <<audioContext, monads, values, gainNodes, pannerNodes,
                       bufferSources, decodes, listener, contextCalls,
                       callerObjects, derivation, last, ncalls>>

NextCaller ==
    \/ Next
    \/ CallerWrite

SpecCaller == Init /\ [][NextCaller]_vars

\* The routing graph: audioMonad(value) is called with a value that holds a
\* decoded buffer and no master gain; the caller chains masterGain, locate,
\* removeLocation and play
InitGraph ==
    /\ audioContext \in BOOLEAN
    /\ values = << [EmptyData EXCEPT !.audioBuffers = 1] >>
    /\ objects = << ("x" :> "H0") >>
    /\ monads = unit(<<>>, audioContext, 1)
    /\ gainNodes = <<>>
    /\ pannerNodes = <<>>
    /\ bufferSources = <<>>
    /\ decodes = <<>>
    /\ listener = <<0, 0, 0>>
    /\ contextCalls = 0
    /\ callerObjects = {}
    /\ derivation = << [from |-> Undefined, op |-> "unit", args |-> <<>>,
                        gain |-> Undefined, panner |-> Undefined,
                        source |-> Undefined] >>
    /\ last = [op |-> "unit", this |-> Undefined, args |-> <<>>, threw |-> FALSE,
               is_monad |-> TRUE, ret |-> 1]
    /\ ncalls = 0

GraphMasterGain ==
    \E m \in Monads, initialVolume \in Volumes :
        /\ LiftWithin(MaxGraphCalls, "masterGain", Heap, m,
                      [initialVolume |-> initialVolume],
                      masterGain(Heap, monads[m].value, initialVolume))
        /\ UNCHANGED callerObjects

GraphLocate ==
    \E m \in Monads, id \in LocationIds, a \in LocateArgs :
        /\ LiftWithin(MaxGraphCalls, "locate", Heap, m,
                      [id |-> id, pos |-> a.pos, options |-> a.options],
                      locate(Heap, monads[m].value, id, a.pos, a.options))
        /\ UNCHANGED callerObjects

GraphRemoveLocation ==
    \E m \in Monads, id \in LocationIds :
        /\ LiftWithin(MaxGraphCalls, "removeLocation", Heap, m, [id |-> id],
                      removeLocation(Heap, monads[m].value, id))
        /\ UNCHANGED callerObjects

GraphPlay ==
    \E m \in Monads, a \in PlayArgs :
        /\ LiftWithin(MaxGraphCalls, "play", Heap, m, a,
                      play(Heap, monads[m].value, a.id, a.location))
        /\ UNCHANGED callerObjects

NextGraph ==
    \/ GraphMasterGain
    \/ GraphLocate
    \/ GraphRemoveLocation
    \/ GraphPlay

SpecGraph == InitGraph /\ [][NextGraph]_vars

\* ------------------------------------------------------------------------
\* Vocabulary of the properties

\* the step is a call of one of the monad's methods; last' describes it
CallStep == ncalls' = ncalls + 1

\* the monad delivers its value to the functions bound to it
Active(m) == audioContext /\ monads[m].value # Undefined

\* the monads that wrap a data value
Wrapping == {w \in 1..Len(monads) : monads[w].value # Undefined}

\* the entry of id in the buffer table of value v, on the given heaps
BufferIn(vals, objs, v, id) ==
    IF vals[v].audioBuffers = Undefined
    THEN Absent
    ELSE GetBuffer(objs[vals[v].audioBuffers], id)

\* the panner of id in the location table of value v, on the given heaps
LocationIn(vals, objs, v, id) ==
    IF vals[v].locations = Undefined
    THEN Undefined
    ELSE GetLocation(objs[vals[v].locations], id)

\* the ids that a call of addSound or sounds names
SoundsNamed(op, args) ==
    IF op = "addSound" THEN {args.id}
    ELSE IF op = "sounds" THEN {args.sounds[i][1] : i \in DOMAIN args.sounds}
    ELSE {}

\* the operations that return a clone of the value they receive
CloningOps ==
    {"setAudioBuffers", "masterGain", "removeSound", "sounds", "addSound",
     "locate", "removeLocation"}

\* ------------------------------------------------------------------------
\* C1: decode lifecycle on one table.  When addSound or sounds returns, the
\* buffer table of the returned state maps each named id to 'pending' and
\* each decode it scheduled has captured that very table (same reference);
\* the captures and the state's table reference never change; when the
\* engine reports success for a decode its captured table maps the id to the
\* decoded buffer, and when it reports failure, to 'failed'.
C1_DecodeLifecycle ==
    [][ /\ (CallStep /\ last'.op \in {"addSound", "sounds"}
                /\ Active(last'.this) /\ ~last'.threw) =>
              LET t == values'[monads'[last'.ret].value].audioBuffers
                  ids == SoundsNamed(last'.op, last'.args)
                  new == (Len(decodes) + 1)..Len(decodes')
              IN  /\ t # Undefined
                  /\ \A id \in ids : GetBuffer(objects'[t], id) = "pending"
                  /\ \A id \in ids : \E d \in new :
                        /\ decodes'[d].audioBuffers = t
                        /\ decodes'[d].id = id
                        /\ decodes'[d].status = "scheduled"
                  /\ \A d \in new : decodes'[d].audioBuffers = t /\ decodes'[d].id \in ids
        /\ \A d \in 1..Len(decodes) :
              /\ Len(decodes') >= d
              /\ decodes'[d].audioBuffers = decodes[d].audioBuffers
              /\ decodes'[d].id = decodes[d].id
              /\ (decodes[d].status = "scheduled" /\ decodes'[d].status = "decoded") =>
                    GetBuffer(objects'[decodes[d].audioBuffers], decodes[d].id)
                        = DecodedBuffer(d)
              /\ (decodes[d].status = "scheduled" /\ decodes'[d].status = "failed") =>
                    GetBuffer(objects'[decodes[d].audioBuffers], decodes[d].id)
                        = "failed"
        /\ \A w \in Wrapping :
              values'[monads[w].value].audioBuffers = values[monads[w].value].audioBuffers
      ]_vars

\* a state that addSound returned shows the decoded buffer of its decode in
\* the table that the decode captured
C1_Witness ==
    \E w \in Wrapping, d \in 1..Len(decodes) :
        /\ derivation[w].op = "addSound"
        /\ values[monads[w].value].audioBuffers = decodes[d].audioBuffers
        /\ decodes[d].status = "decoded"
        /\ BufferIn(values, objects, monads[w].value, decodes[d].id) = DecodedBuffer(d)

\* ------------------------------------------------------------------------
\* C2: addSound on an active state, with a payload of the expected form,
\* does not throw and returns a state whose buffer table holds the id.
C2_AddSoundNeverThrows ==
    (last.op = "addSound" /\ Active(last.this) /\ last.args.data = GoodPayload) =>
        /\ ~last.threw
        /\ BufferIn(values, objects, monads[last.ret].value, last.args.id) # Absent

\* ------------------------------------------------------------------------
\* C3: alias visibility of decode completion.

\* the engine reports on decode d in this step
DecodeStep(d) == decodes[d].status = "scheduled" /\ decodes'[d].status # "scheduled"

\* the monads derived by a cloning operation from the state whose table the
\* decode d captured
DerivedFromStateOf(d) ==
    {w \in Wrapping :
        /\ derivation[w].op \in CloningOps
        /\ values[monads[derivation[w].from].value].audioBuffers = decodes[d].audioBuffers}

\* C3 as claimed: a state derived by any cloning operation from the state of
\* a pending decode holds a distinct table, and after the decode completes
\* its entry for the id is still 'pending'.
C3_DerivedStaysPending ==
    [][\A d \in 1..Len(decodes) : DecodeStep(d) =>
          \A w \in DerivedFromStateOf(d) :
              /\ values[monads[w].value].audioBuffers # decodes[d].audioBuffers
              /\ BufferIn(values', objects', monads[w].value, decodes[d].id) = "pending"
      ]_vars

\* C3 as amended: a decode callback writes exactly the entry of its id in
\* exactly the table it captured; a cloning operation returns a state with a
\* fresh table instance that no earlier decode has captured, in which an
\* entry that was pending is still 'pending' unless the operation itself
\* removed or replaced it (removeSound of that id, setAudioBuffers); the
\* completion of a decode changes no entry of any other table, so a derived
\* state never observes it; no call cancels or changes a decode in flight.
C3_AliasVisibility ==
    [][ /\ \A d \in 1..Len(decodes) : DecodeStep(d) =>
              LET t == decodes[d].audioBuffers
                  id == decodes[d].id
              IN  /\ values' = values
                  /\ Len(objects') = Len(objects)
                  /\ \A o \in 1..Len(objects) : o # t => objects'[o] = objects[o]
                  /\ DOMAIN objects'[t] = DOMAIN objects[t] \cup {id}
                  /\ \A k \in DOMAIN objects[t] \ {id} : objects'[t][k] = objects[t][k]
                  /\ objects'[t][id] \in {DecodedBuffer(d), "failed"}
                  /\ \A w \in DerivedFromStateOf(d) :
                        /\ values[monads[w].value].audioBuffers # t
                        /\ BufferIn(values', objects', monads[w].value, id)
                              = BufferIn(values, objects, monads[w].value, id)
        /\ (CallStep /\ last'.op \in CloningOps /\ Active(last'.this) /\ ~last'.threw) =>
              LET S == monads[last'.this].value
                  R == monads'[last'.ret].value
              IN  /\ R > Len(values)
                  /\ values'[R].audioBuffers # Undefined =>
                        /\ values'[R].audioBuffers > Len(objects)
                        /\ \A d \in 1..Len(decodes) :
                              decodes[d].audioBuffers # values'[R].audioBuffers
                  /\ \A id \in SoundIds :
                        (/\ BufferIn(values, objects, S, id) = "pending"
                         /\ ~(last'.op = "removeSound" /\ last'.args.id = id)
                         /\ last'.op # "setAudioBuffers") =>
                            BufferIn(values', objects', R, id) = "pending"
        /\ CallStep => \A d \in 1..Len(decodes) : decodes'[d] = decodes[d]
      ]_vars

\* a decode completed in the table of the state that scheduled it, while the
\* state that masterGain derived from that state still shows 'pending'
C3_Witness ==
    \E d \in 1..Len(decodes), w \in Wrapping :
        /\ decodes[d].status = "decoded"
        /\ w \in DerivedFromStateOf(d)
        /\ derivation[w].op = "masterGain"
        /\ GetBuffer(objects[decodes[d].audioBuffers], decodes[d].id) = DecodedBuffer(d)
        /\ BufferIn(values, objects, monads[w].value, decodes[d].id) = "pending"

\* ------------------------------------------------------------------------
\* C4: removeSound and late decodes.

RECURSIVE RemovedIn(_)
\* the ids that removeSound removed along the chain of calls that led to
\* monad w and that no later call of the chain added again
RemovedIn(w) ==
    IF derivation[w].from = Undefined
    THEN {}
    ELSE LET before == RemovedIn(derivation[w].from)
             op == derivation[w].op
             args == derivation[w].args
         IN  CASE op = "removeSound" -> before \cup {args.id}
               [] op \in {"addSound", "sounds"} -> before \ SoundsNamed(op, args)
               [] op = "setAudioBuffers" ->
                     before \ DOMAIN objects[values[monads[w].value].audioBuffers]
               [] OTHER -> before

\* C4: in every state derived from a state that removeSound(id) returned, by
\* calls that do not add id again, the mapping that getAudioBuffers returns
\* never contains id, whenever the decodes scheduled before complete.
C4_RemovedStaysRemoved ==
    \A w \in Wrapping : \A id \in RemovedIn(w) :
        LET r == getAudioBuffers(Heap, monads[w].value)
        IN  id \notin DOMAIN r.heap.objects[r.ret]

\* the decode of a removed id has completed in the table that it captured
C4_Witness ==
    \E w \in Wrapping, d \in 1..Len(decodes) :
        /\ decodes[d].id \in RemovedIn(w)
        /\ derivation[w].op = "removeSound"
        /\ derivation[w].args.id = decodes[d].id
        /\ values[monads[derivation[w].from].value].audioBuffers = decodes[d].audioBuffers
        /\ decodes[d].status = "decoded"
        /\ GetBuffer(objects[decodes[d].audioBuffers], decodes[d].id) = DecodedBuffer(d)

\* ------------------------------------------------------------------------
\* C5: structural immutability.  A call of any registered operation leaves
\* every state that a monad wraps as it was: the same fields with the same
\* master gain and the same table references, and the same contents of its
\* buffer table and of its location table.  What changes is in the returned
\* state.
C5_StructuralImmutability ==
    [][CallStep =>
          \A w \in Wrapping :
              LET v == monads[w].value
              IN  /\ values'[v] = values[v]
                  /\ values[v].audioBuffers # Undefined =>
                        objects'[values[v].audioBuffers] = objects[values[v].audioBuffers]
                  /\ values[v].locations # Undefined =>
                        objects'[values[v].locations] = objects[values[v].locations]
      ]_vars

\* play has created the master gain: the state it returned holds it and the
\* state it was called on does not
C5_Witness ==
    /\ last.op = "play"
    /\ ~last.threw
    /\ last.ret # last.this
    /\ values[monads[last.this].value].masterGain = Undefined
    /\ values[monads[last.ret].value].masterGain # Undefined

\* ------------------------------------------------------------------------
\* C6: play of a buffer that is not decoded.

\* the decoded buffers that a table can hold: the one the caller supplies to
\* setAudioBuffers and those of the decodes
DecodedHandles == {"H0"} \cup {DecodedBuffer(d) : d \in 1..Len(decodes)}

\* C6: play on an entry that is absent (or without a table), 'pending' or
\* 'failed' does not throw, creates no source and no gain node, makes no call
\* on the audio context and returns the state it received; a source is
\* created and started exactly when the entry is a decoded buffer.
C6_PlayOnlyDecoded ==
    [][(CallStep /\ last'.op = "play" /\ Active(last'.this)) =>
          LET S == monads[last'.this].value
              buffer == BufferIn(values, objects, S, last'.args.id)
          IN  /\ ~last'.threw
              /\ buffer \in DecodedHandles \cup {Absent, "pending", "failed"}
              /\ buffer \in DecodedHandles =>
                    /\ Len(bufferSources') = Len(bufferSources) + 1
                    /\ bufferSources'[Len(bufferSources')].buffer = buffer
                    /\ bufferSources'[Len(bufferSources')].started = 1
              /\ buffer \notin DecodedHandles =>
                    /\ bufferSources' = bufferSources
                    /\ gainNodes' = gainNodes
                    /\ pannerNodes' = pannerNodes
                    /\ contextCalls' = contextCalls
                    /\ values' = values
                    /\ objects' = objects
                    /\ monads'[last'.ret].value = S
      ]_vars

\* play was called for an id whose decode failed, and nothing plays
C6_Witness ==
    /\ last.op = "play"
    /\ Active(last.this)
    /\ BufferIn(values, objects, monads[last.this].value, last.args.id) = "failed"
    /\ monads[last.ret].value = monads[last.this].value
    /\ bufferSources = <<>>

\* ------------------------------------------------------------------------
\* C7: the lazily created master gain.

NoMasterGainCall == \A w \in 1..Len(monads) : derivation[w].op # "masterGain"

C8_Routing ==
    [][(/\ CallStep /\ last'.op = "play" /\ Active(last'.this)
        /\ Playable(BufferIn(values, objects, monads[last'.this].value, last'.args.id))) =>
          LET S == monads[last'.this].value
              R == monads'[last'.ret].value
              buffer == BufferIn(values, objects, S, last'.args.id)
              panner == IF last'.args.location = Absent THEN Undefined
                        ELSE LocationIn(values, objects, S, last'.args.location)
              src == Len(bufferSources) + 1
              g == values'[R].masterGain
          IN  /\ ~last'.threw
              /\ Len(bufferSources') = src
              /\ \A s \in 1..Len(bufferSources) : bufferSources'[s] = bufferSources[s]
              /\ bufferSources'[src].buffer = buffer
              /\ bufferSources'[src].started = 1
              /\ bufferSources'[src].when = 0
              /\ g # Undefined
              /\ IF panner # Undefined
                 THEN /\ bufferSources'[src].panners = {panner}
                      /\ bufferSources'[src].gains = {}
                      /\ pannerNodes'[panner].gains = pannerNodes[panner].gains \cup {g}
                 ELSE /\ bufferSources'[src].panners = {}
                      /\ bufferSources'[src].gains = {g}
                      /\ pannerNodes' = pannerNodes
              /\ objects'[values[S].audioBuffers] = objects[values[S].audioBuffers]
              /\ objects'[values'[R].audioBuffers] = objects[values[S].audioBuffers]
      ]_vars

\* play with a location has connected its source to the panner of the location
C8_Witness ==
    /\ last.op = "play"
    /\ ~last.threw
    /\ last.args.location = "p"
    /\ derivation[last.ret].op = "play"
    /\ derivation[last.ret].source # Undefined
    /\ bufferSources[derivation[last.ret].source].panners # {}

\* ------------------------------------------------------------------------
\* C9: locate on an id that has a panner.

\* the calls of the chain that created a panner for location id
PannersCreatedFor(id) ==
    {w \in 1..Len(monads) :
        /\ derivation[w].op = "locate"
        /\ derivation[w].args.id = id
        /\ derivation[w].panner # Undefined}

LocationRemoved(id) ==
    \E w \in 1..Len(monads) :
        derivation[w].op = "removeLocation" /\ derivation[w].args.id = id

\* C9: locate on a state whose locations hold the id creates no panner; the
\* returned state maps the id to the same panner, of which only the position
\* and the options are set, all other panners being untouched; along a chain
\* without removeLocation of the id at most one panner is created for it.
C9_LocateReusesPanner ==
    [][ /\ (CallStep /\ last'.op = "locate" /\ Active(last'.this)) =>
              LET S == monads[last'.this].value
                  R == monads'[last'.ret].value
                  id == last'.args.id
                  old == LocationIn(values, objects, S, id)
              IN  /\ ~last'.threw
                  /\ old # Undefined =>
                        /\ Len(pannerNodes') = Len(pannerNodes)
                        /\ LocationIn(values', objects', R, id) = old
                        /\ pannerNodes'[old].gains = pannerNodes[old].gains
                        /\ pannerNodes'[old].position =
                              <<OrDefault(last'.args.pos[1], 0),
                                OrDefault(last'.args.pos[2], 0),
                                OrDefault(last'.args.pos[3], 0)>>
                        /\ \A k \in DOMAIN last'.args.options :
                              pannerNodes'[old].props[k] = last'.args.options[k]
                        /\ \A p \in 1..Len(pannerNodes) :
                              p # old => pannerNodes'[p] = pannerNodes[p]
        /\ \A id \in LocationIds :
              ~LocationRemoved(id)' => Cardinality(PannersCreatedFor(id)') <= 1
      ]_vars

\* the second locate of an id has created no panner and has positioned the first
C9_Witness ==
    /\ last.op = "locate"
    /\ Active(last.this)
    /\ ~last.threw
    /\ derivation[last.ret].op = "locate"
    /\ derivation[last.ret].panner = Undefined
    /\ Len(pannerNodes) = 1
    /\ pannerNodes[1].positioned = 2

\* ------------------------------------------------------------------------
\* C10: graceful degradation.  Without an audio context, or on a monad
\* without a value, every method (getAudioBuffers included) returns the
\* monad it was called on, does not throw, calls nothing on the audio
\* context, schedules no decode and creates no monad and no value.
C10_GracefulDegradation ==
    [][(CallStep /\ ~Active(last'.this)) =>
          /\ ~last'.threw
          /\ last'.is_monad
          /\ last'.ret = last'.this
          /\ monads' = monads
          /\ values' = values
          /\ contextCalls' = contextCalls
          /\ decodes' = decodes
          /\ gainNodes' = gainNodes
          /\ pannerNodes' = pannerNodes
          /\ bufferSources' = bufferSources
          /\ listener' = listener
      ]_vars

\* on a page without audio context, getAudioBuffers has returned the monad
\* that wraps a data value, after an earlier call on it
C10_Witness ==
    /\ ~audioContext
    /\ monads[1].value # Undefined
    /\ ncalls >= 2
    /\ last.op = "getAudioBuffers"
    /\ last.is_monad
    /\ last.ret = 1
    /\ Len(monads) = 1

\* ------------------------------------------------------------------------
\* C11: copy semantics of getAudioBuffers.

\* the contents of the buffer table of value v, empty without a table
TableOf(vals, objs, v) ==
    IF vals[v].audioBuffers = Undefined THEN <<>> ELSE objs[vals[v].audioBuffers]

\* the mappings that a state holds as its buffer table or that a decode captured
StateTables ==
    ({values[v].audioBuffers : v \in 1..Len(values)} \ {Undefined})
        \cup {decodes[d].audioBuffers : d \in 1..Len(decodes)}

\* C11: on an active state getAudioBuffers returns a new mapping whose
\* contents are those of the state's buffer table (empty without a table);
\* two calls in a row on the same state return equal contents in distinct
\* instances, both distinct from the state's table; the call changes nothing
\* else; no mapping that the caller holds is a state's table or the capture
\* of a decode, so a write of the caller changes no state and the completion
\* of a decode changes no mapping of the caller.
C11_CopySemantics ==
    [][ /\ \A w \in Wrapping : Active(w) =>
              LET v == monads[w].value
                  r1 == getAudioBuffers(Heap, v)
                  r2 == getAudioBuffers(r1.heap, v)
              IN  /\ ~r1.threw /\ ~r2.threw
                  /\ r1.ret # r2.ret
                  /\ r1.ret # values[v].audioBuffers
                  /\ r2.ret # values[v].audioBuffers
                  /\ r2.heap.objects[r1.ret] = TableOf(values, objects, v)
                  /\ r2.heap.objects[r2.ret] = TableOf(values, objects, v)
                  /\ r2.heap.values = values
        /\ (CallStep /\ last'.op = "getAudioBuffers" /\ Active(last'.this)) =>
              LET S == monads[last'.this].value
                  r == last'.ret
              IN  /\ ~last'.threw
                  /\ ~last'.is_monad
                  /\ r = Len(objects) + 1
                  /\ Len(objects') = r
                  /\ objects'[r] = TableOf(values, objects, S)
                  /\ \A o \in 1..Len(objects) : objects'[o] = objects[o]
                  /\ r \in callerObjects'
                  /\ values' = values
                  /\ monads' = monads
                  /\ decodes' = decodes
                  /\ contextCalls' = contextCalls
        /\ callerObjects \cap StateTables = {}
        /\ (ncalls' = ncalls /\ decodes' = decodes) =>
              /\ values' = values
              /\ \A t \in StateTables : objects'[t] = objects[t]
        /\ (\E d \in 1..Len(decodes) : DecodeStep(d)) =>
              \A o \in callerObjects : objects'[o] = objects[o]
      ]_vars

\* getAudioBuffers returned a mapping while x and y were pending; the caller
\* wrote into its entry x and the decode of y completed afterwards: the
\* state's table shows x pending and y decoded, the mapping shows the
\* caller's x and y pending
C11_Witness ==
    /\ last.op = "getAudioBuffers"
    /\ Active(last.this)
    /\ ~last.is_monad
    /\ GetBuffer(objects[last.ret], "x") = WrittenByCaller
    /\ GetBuffer(objects[last.ret], "y") = "pending"
    /\ BufferIn(values, objects, monads[last.this].value, "x") = "pending"
    /\ \E d \in 1..Len(decodes) :
          /\ decodes[d].status = "decoded"
          /\ BufferIn(values, objects, monads[last.this].value, "y") = DecodedBuffer(d)

\* ------------------------------------------------------------------------
\* C12: the status of a sound identifier.

\* the status that an entry of a buffer table stands for
Status(buffer) ==
    IF buffer = Absent THEN "absent"
    ELSE IF buffer \in {"pending", "failed"} THEN buffer
    ELSE "decoded"

\* a decode that captured table t for id completes in this step
CompletesIn(t, id) ==
    \E d \in 1..Len(decodes) :
        DecodeStep(d) /\ decodes[d].audioBuffers = t /\ decodes[d].id = id

\* C12 as claimed: in any single table and from the state a call receives to
\* the state it returns, the status of an id changes only from absent to
\* pending (addSound, sounds), from pending to decoded or failed (completion
\* of a decode) and from any status to absent (removeSound); decoded and
\* failed are terminal until removed.  The tables that a caller supplies
\* with setAudioBuffers are left aside.
C12_OnlyListedTransitions ==
    [][ /\ \A t \in StateTables : \A id \in SoundIds :
              LET a == Status(GetBuffer(objects[t], id))
                  b == Status(GetBuffer(objects'[t], id))
              IN  a = b \/ (a = "pending" /\ b \in {"decoded", "failed"})
        /\ (CallStep /\ Active(last'.this) /\ ~last'.threw /\ last'.is_monad
                /\ last'.op # "setAudioBuffers") =>
              \A id \in SoundIds :
                  LET a == Status(BufferIn(values, objects, monads[last'.this].value, id))
                      b == Status(BufferIn(values', objects', monads'[last'.ret].value, id))
                  IN  \/ a = b
                      \/ /\ a = "absent" /\ b = "pending"
                         /\ id \in SoundsNamed(last'.op, last'.args)
                      \/ /\ b = "absent"
                         /\ last'.op = "removeSound" /\ last'.args.id = id
      ]_vars

\* C12 as amended.  In any single table the entry of an id changes only when
\* a decode that captured this table for this id completes, from 'pending'
\* to the decoded buffer or to 'failed': a decoded or failed entry of a table
\* is never written again.  From the state a call receives to the state it
\* returns, addSound and sounds make every id they name 'pending' whatever
\* its status was (decoded and failed included), removeSound makes its id
\* absent, setAudioBuffers gives every id the entry of the supplied mapping
\* (or none), and every other id and every other operation keep the entry.
C12_StatusTransitions ==
    [][ /\ \A t \in StateTables : \A id \in SoundIds :
              \/ GetBuffer(objects'[t], id) = GetBuffer(objects[t], id)
              \/ /\ CompletesIn(t, id)
                 /\ GetBuffer(objects[t], id) = "pending"
                 /\ Status(GetBuffer(objects'[t], id)) \in {"decoded", "failed"}
        /\ (CallStep /\ Active(last'.this) /\ ~last'.threw /\ last'.is_monad) =>
              \A id \in SoundIds :
                  LET a == BufferIn(values, objects, monads[last'.this].value, id)
                      b == BufferIn(values', objects', monads'[last'.ret].value, id)
                  IN  IF id \in SoundsNamed(last'.op, last'.args)
                      THEN b = "pending"
                      ELSE IF last'.op = "removeSound" /\ last'.args.id = id
                      THEN b = Absent
                      ELSE IF last'.op = "setAudioBuffers"
                      THEN b = GetBuffer(objects'[last'.args.buffers], id)
                      ELSE b = a
      ]_vars

\* addSound was called for an id that the state holds decoded, and the
\* state it returned shows the id pending
C12_Witness ==
    /\ last.op = "addSound"
    /\ Active(last.this)
    /\ ~last.threw
    /\ Status(BufferIn(values, objects, monads[last.this].value, last.args.id)) = "decoded"
    /\ BufferIn(values, objects, monads[last.ret].value, last.args.id) = "pending"

\* ------------------------------------------------------------------------
\* C13: addSound and sounds with one entry.

Payloads == {GoodPayload, BarePayload}

\* addSound(S, id, d) and sounds(S, {id: d}) on the same heap end alike: both
\* throw, or both return and leave the same heap (the same returned state,
\* the same tables, the same decode with the same captures)
SameOutcome(H, value, id, data) ==
    LET a == addSound(H, value, id, data)
        b == sounds(H, value, << <<id, data>> >>)
    IN  /\ a.threw = b.threw
        /\ ~a.threw => (a.ret = b.ret /\ a.heap = b.heap)

\* C13: for every active state, with or without a buffer table, every id
\* and every payload, addSound(S, id, d) and sounds(S, {id: d}) have the same
\* outcome: the same returned state with id 'pending' and everything else
\* kept, one decode scheduled for id with the same captures.
C13_AddSoundEqualsSounds ==
    \A w \in Wrapping : Active(w) =>
        \A id \in SoundIds, data \in Payloads :
            SameOutcome(Heap, monads[w].value, id, data)

\* the same, for the states that hold a buffer table
C13_EqualWithTable ==
    \A w \in Wrapping : (Active(w) /\ values[monads[w].value].audioBuffers # Undefined) =>
        \A id \in SoundIds, data \in Payloads :
            SameOutcome(Heap, monads[w].value, id, data)

\* ------------------------------------------------------------------------
\* C14: masterGain(S, v).

\* the contents of the location table of value v, empty without a table
LocationsOf(vals, objs, v) ==
    IF vals[v].locations = Undefined THEN <<>> ELSE objs[vals[v].locations]

\* C14: masterGain returns a clone of the state it receives, whose master
\* gain is a gain node created by this call and connected once to the
\* destination; the volume of the node is v for every v that the caller
\* passes, 0 included, and 1 when the caller passes none; the buffer table
\* and the locations are carried over.
C14_MasterGainVolume ==
    [][(CallStep /\ last'.op = "masterGain" /\ Active(last'.this)) =>
          LET S == monads[last'.this].value
              R == monads'[last'.ret].value
              g == values'[R].masterGain
              v == last'.args.initialVolume
          IN  /\ ~last'.threw
              /\ R > Len(values)
              /\ g = Len(gainNodes) + 1
              /\ Len(gainNodes') = g
              /\ gainNodes'[g].destination = 1
              /\ gainNodes'[g].value = (IF v = Missing THEN 1 ELSE v)
              /\ TableOf(values', objects', R) = TableOf(values, objects, S)
              /\ LocationsOf(values', objects', R) = LocationsOf(values, objects, S)
      ]_vars

\* ------------------------------------------------------------------------
\* C15: every decode ends in the table of the state that scheduled it.

\* monad w was returned by addSound or sounds, which named id
AddedBy(w, id) ==
    /\ w \in Wrapping
    /\ id \in SoundsNamed(derivation[w].op, derivation[w].args)

\* C15: when the engine reports on every request, an id that addSound or
\* sounds marked 'pending' in the state it returned is eventually a decoded
\* buffer or 'failed' in the table of that state, whatever calls and
\* completions of other decodes happen in between.
C15_DecodeLiveness ==
    \A w \in 1..(MaxCalls + 1) : \A id \in SoundIds :
        (AddedBy(w, id) /\ BufferIn(values, objects, monads[w].value, id) = "pending")
            ~> (AddedBy(w, id)
                /\ Status(BufferIn(values, objects, monads[w].value, id))
                      \in {"decoded", "failed"})

\* sounds marked x and y pending, a later call was chained on the state it
\* returned, and in the table of that state one id is decoded and the other
\* failed
C15_Witness ==
    \E w \in Wrapping :
        /\ derivation[w].op = "sounds"
        /\ Len(monads) > w
        /\ Status(BufferIn(values, objects, monads[w].value, "x")) = "failed"
        /\ Status(BufferIn(values, objects, monads[w].value, "y")) = "decoded"

\* ------------------------------------------------------------------------
\* C16: setAudioBuffers(S, buffers).

\* the monads that setAudioBuffers returned
SetBy == {w \in Wrapping : derivation[w].op = "setAudioBuffers"}

\* C16: setAudioBuffers returns a clone whose buffer table is a new mapping,
\* neither the supplied one nor one that a decode captured, with exactly the
\* supplied entries; master gain and locations are those of the state it
\* received; it schedules no decode and calls nothing on the audio context;
\* afterwards the table never changes, whatever the caller writes into the
\* supplied mapping and whichever decode completes.
C16_SetAudioBuffers ==
    [][ /\ (CallStep /\ last'.op = "setAudioBuffers" /\ Active(last'.this)) =>
              LET S == monads[last'.this].value
                  R == monads'[last'.ret].value
                  t == values'[R].audioBuffers
                  supplied == last'.args.buffers
              IN  /\ ~last'.threw
                  /\ R > Len(values)
                  /\ t # Undefined
                  /\ t > Len(objects)
                  /\ t # supplied
                  /\ objects'[t] = objects'[supplied]
                  /\ values'[R].masterGain = values[S].masterGain
                  /\ LocationsOf(values', objects', R) = LocationsOf(values, objects, S)
                  /\ decodes' = decodes
                  /\ contextCalls' = contextCalls
                  /\ \A d \in 1..Len(decodes') : decodes'[d].audioBuffers # t
        /\ \A w \in SetBy :
              /\ values'[monads[w].value] = values[monads[w].value]
              /\ objects'[values[monads[w].value].audioBuffers]
                    = objects[values[monads[w].value].audioBuffers]
      ]_vars

\* setAudioBuffers was called while a decode of x was in flight; since then
\* the caller has written into the mapping it supplied and the decode has
\* completed, and the table of the returned state holds what was supplied
C16_Witness ==
    \E w \in SetBy, d \in 1..Len(decodes) :
        /\ GetBuffer(objects[derivation[w].args.buffers], "x") = WrittenByCaller
        /\ TableOf(values, objects, monads[w].value) = ("x" :> "H0")
        /\ decodes[d].id = "x"
        /\ decodes[d].status = "decoded"
        /\ decodes[d].audioBuffers = values[monads[derivation[w].from].value].audioBuffers

\* ------------------------------------------------------------------------
\* C17: lift and lift_value.

\* func.apply(undefined, [value].concat(args)) for the function registered
\* under name
apply(name, H, value, args) ==
    CASE name = "setAudioBuffers" -> setAudioBuffers(H, value, args.buffers)
      [] name = "getAudioBuffers" -> getAudioBuffers(H, value)
      [] name = "masterGain" -> masterGain(H, value, args.initialVolume)
      [] name = "play" -> play(H, value, args.id, args.location)
      [] name = "removeSound" -> removeSound(H, value, args.id)
      [] name = "sounds" -> sounds(H, value, args.sounds)
      [] name = "addSound" -> addSound(H, value, args.id, args.data)
      [] name = "locate" -> locate(H, value, args.id, args.pos, args.options)
      [] name = "removeLocation" -> removeLocation(H, value, args.id)
      [] name = "listenAt" -> listenAt(H, value, args.pos)
      [] name = "orient" -> orient(H, value, args.id, args.pos)
      [] name = "cone" -> cone(H, value, args.id, Missing, Missing, Missing)

\* the methods registered with lift_value
LiftedValues == {"getAudioBuffers"}

C18_OrientConeNoOp ==
    [][ /\ \A v \in 1..Len(values) : values[v].panners = Undefined
        /\ (CallStep /\ last'.op \in {"orient", "cone"} /\ Active(last'.this)) =>
              /\ ~last'.threw
              /\ last'.is_monad
              /\ monads'[last'.ret].value = monads[last'.this].value
              /\ values' = values
              /\ objects' = objects
              /\ pannerNodes' = pannerNodes
              /\ gainNodes' = gainNodes
              /\ bufferSources' = bufferSources
              /\ decodes' = decodes
              /\ listener' = listener
              /\ contextCalls' = contextCalls
      ]_vars

\* orient was called for the id of a panner that locate created, and the
\* panner has no orientation
C18_Witness ==
    /\ last.op = "orient"
    /\ Active(last.this)
    /\ ~last.threw
    /\ LocationIn(values, objects, monads[last.this].value, last.args.id) # Undefined
    /\ "orientation" \notin
          DOMAIN pannerNodes[LocationIn(values, objects, monads[last.this].value,
                                        last.args.id)].props

\* ------------------------------------------------------------------------
\* C19: the operations that do not clone.

\* C19: listenAt, orient, cone, and play when it creates no gain node,
\* return a monad that wraps the very value they received; a play that
\* creates the master gain returns a new value with a new table instance,
\* captured by no decode, with the entries of the received state's table.
\* When a decode completes, every monad whose value holds the captured
\* table shows the result, and the monads with another table instance keep
\* their entry (pending stays 'pending').
C19_NonCloningKeepAlias ==
    [][ /\ (CallStep /\ Active(last'.this) /\ ~last'.threw
                /\ (\/ last'.op \in {"listenAt", "orient", "cone"}
                    \/ last'.op = "play" /\ gainNodes' = gainNodes)) =>
              /\ monads'[last'.ret].value = monads[last'.this].value
              /\ values' = values
              /\ objects' = objects
        /\ (CallStep /\ Active(last'.this) /\ ~last'.threw
                /\ last'.op = "play" /\ gainNodes' # gainNodes) =>
              LET S == monads[last'.this].value
                  R == monads'[last'.ret].value
                  t == values'[R].audioBuffers
              IN  /\ R > Len(values)
                  /\ t > Len(objects)
                  /\ \A d \in 1..Len(decodes') : decodes'[d].audioBuffers # t
                  /\ objects'[t] = objects[values[S].audioBuffers]
        /\ \A d \in 1..Len(decodes) : DecodeStep(d) =>
              \A w \in Wrapping :
                  IF values[monads[w].value].audioBuffers = decodes[d].audioBuffers
                  THEN BufferIn(values', objects', monads[w].value, decodes[d].id)
                          \in {DecodedBuffer(d), "failed"}
                  ELSE TableOf(values', objects', monads[w].value)
                          = TableOf(values, objects, monads[w].value)
      ]_vars

\* sounds, then listenAt, then a play of x that created the master gain
\* while y was pending, then the decode of y: the monad that listenAt
\* returned shows y decoded, the one that play returned shows y pending
C19_Witness ==
    \E u \in Wrapping, w \in Wrapping :
        /\ derivation[u].op = "listenAt"
        /\ monads[u].value = monads[derivation[u].from].value
        /\ derivation[derivation[u].from].op = "sounds"
        /\ Status(BufferIn(values, objects, monads[u].value, "y")) = "decoded"
        /\ derivation[w].op = "play"
        /\ derivation[w].from = u
        /\ derivation[w].gain # Undefined
        /\ BufferIn(values, objects, monads[w].value, "y") = "pending"

\* ------------------------------------------------------------------------
\* C20: the routing graph.

\* the gain nodes on the paths from source s to the destination: the ones
\* the source is connected to, and the ones its panners are connected to
GainsOnPaths(s) ==
    bufferSources[s].gains
        \cup UNION {pannerNodes[p].gains : p \in bufferSources[s].panners}

\* C20: after any sequence of masterGain, locate, removeLocation and play
\* from a state without master gain, every path from a source that a play
\* started to the destination runs through the master gain of the state
\* which that play returned, and through no other gain node; that gain is
\* connected to the destination.
C20_RoutingGraph ==
    \A w \in Wrapping :
        derivation[w].source # Undefined =>
            LET g == values[monads[w].value].masterGain
            IN  /\ g # Undefined
                /\ gainNodes[g].destination >= 1
                /\ GainsOnPaths(derivation[w].source) = {g}

\* the same for the behaviours with at most one gain node
C20_RoutingWithOneGain ==
    Len(gainNodes) <= 1 => C20_RoutingGraph

====
